---- MODULE Spec2Model ----
(***************************************************************************)
(* RACF audit (racf_audit.py): reconciliation of a clan roster with the    *)
(* role sets of a chat community.                                          *)
(*                                                                         *)
(* Strings the code inspects character by character (player tags) are      *)
(* sequences of one-character strings.  Python's None is NoneTag for a     *)
(* tag, NoneStr for any other string and NoneInt for an integer.           *)
(***************************************************************************)
EXTENDS Integers, Sequences, FiniteSets, TLC

\* ------------------------------------------------------------------ bounds
MaxRoster == 2
MaxTagLen == 3
MaxRuns == 2
MaxCalls == 3

\* ------------------------------------------------------- Python's None
NoneTag == <<"None">>
NoneStr == "None"
NoneInt == -1

\* ------------------------------------------------------------ characters
TagChars == {"#", " ", "q", "Q", "2"}

IsSpace(c) == c = " "

\* str.upper() on one character of the model's strings
UpperChar(c) ==
  CASE c = "q" -> "Q"
    [] c = "v" -> "V"
    [] c = "g" -> "G"
    [] c = "u" -> "U"
    [] c = "p" -> "P"
    [] OTHER -> c

RECURSIVE lstrip(_)
lstrip(s) == IF s # <<>> /\ IsSpace(Head(s)) THEN lstrip(Tail(s)) ELSE s

RECURSIVE rstrip(_)
rstrip(s) ==
  IF s # <<>> /\ IsSpace(s[Len(s)]) THEN rstrip(SubSeq(s, 1, Len(s) - 1)) ELSE s

strip(s) == rstrip(lstrip(s))

upper(s) == [i \in 1..Len(s) |-> UpperChar(s[i])]

startswith(s, c) == s # <<>> /\ Head(s) = c

\* clean_tag without its upper-casing
clean_tag_noupper(tag) ==
  IF tag = NoneTag THEN NoneTag
  ELSE strip(IF startswith(tag, "#") THEN Tail(tag) ELSE tag)

\* clean_tag: one leading '#' is removed, THEN whitespace is stripped, then
\* the result is upper-cased.
clean_tag(tag) ==
  IF tag = NoneTag THEN NoneTag
  ELSE LET t1 == IF startswith(tag, "#") THEN Tail(tag) ELSE tag
           t2 == strip(t1)
       IN  upper(t2)

\* str.lower() on the role names of the model
lower(s) ==
  CASE s = "Elder" -> "elder"
    [] s = "ELDER" -> "elder"
    [] s = "elder" -> "elder"
    [] s = "coLeader" -> "coleader"
    [] s = "CoLeader" -> "coleader"
    [] s = "coleader" -> "coleader"
    [] s = "Co-Leader" -> "co-leader"
    [] s = "Leader" -> "leader"
    [] s = "leader" -> "leader"
    [] s = "Member" -> "member"
    [] s = "member" -> "member"
    [] s = "Visitor" -> "visitor"
    [] s = "Special" -> "special"
    [] s = "Keep-Member" -> "keep-member"
    [] s = "Leader-Emeritus" -> "leader-emeritus"
    [] s = "Tourney" -> "tourney"
    [] s = "Practice" -> "practice"
    [] s = "AlphaRole" -> "alpharole"
    [] s = "BravoRole" -> "bravorole"
    [] s = "CharlieRole" -> "charlierole"
    [] s = "MiniRole" -> "minirole"

\* ----------------------------------------------------------- family config
\* self.config['clans'] (family_config.yaml): an ordered list of clans.
Config ==
  << [name |-> "Alpha",   tag |-> <<"#", "2">>, role_name |-> "AlphaRole",   type |-> "Member"],
     [name |-> "Bravo",   tag |-> <<"#", "Q">>, role_name |-> "BravoRole",   type |-> "Member"],
     [name |-> "Charlie", tag |-> <<"2", "Q">>, role_name |-> "CharlieRole", type |-> "Member"],
     [name |-> "Mini",    tag |-> <<"Q", "2">>, role_name |-> "MiniRole",    type |-> "Other"] >>

\* clan_roles without the test of the type
clan_roles_all ==
  [n \in {Config[i].name : i \in 1..Len(Config)} |->
     (CHOOSE c \in {Config[i] : i \in 1..Len(Config)} : c.name = n).role_name]

\* clan_roles: clan name -> role name, for the clans of type Member only
clan_roles ==
  [n \in {Config[i].name : i \in {j \in 1..Len(Config) : Config[j].type = "Member"}} |->
     (CHOOSE c \in {Config[i] : i \in 1..Len(Config)} :
        c.type = "Member" /\ c.name = n).role_name]

\* self.clan_roles.values(), in the order the clans were inserted
RECURSIVE clan_role_values(_)
clan_role_values(i) ==
  IF i > Len(Config) THEN <<>>
  ELSE (IF Config[i].name \in DOMAIN clan_roles
          THEN <<clan_roles[Config[i].name]>> ELSE <<>>)
       \o clan_role_values(i + 1)

\* ------------------------------------------------------------- the server
\* server.members, in directory order
ServerMembers == <<"m1", "m2">>

Range(s) == {s[i] : i \in 1..Len(s)}

\* server.get_member(id): None for an id that is not on the server
get_member(id) == IF id \in Range(ServerMembers) THEN id ELSE NoneStr

\* the record set_player_tag stores under the key it was given
PlayerRecord(tag, id) == [tag |-> clean_tag(tag), user_id |-> id]

\* ------------------------------------------------------------------ state
VARIABLES
  roster,          \* the API's member lists, one record per clan member
  players,         \* player_db.json: tag key -> record
  roles,           \* community member -> set of role names (live)
  pc,              \* position of racfaudit_run
  run,             \* number of runs started
  option_exec,     \* pargs.exec
  member_models,   \* family_member_models()
  discord_member,  \* member_model['discord_member'], by roster position
  idx,             \* position of the loop in progress
  discord_members, \* resolved community members, in roster order
  audit_results,   \* the seven buckets
  ops,             \* add_roles / remove_roles calls of this run, in order
  roles0,          \* the role sets when the run started
  prev_exec,       \* the previous run executed its role changes to the end
  tag_in,          \* clean_tag: the string given
  tag_out,         \* clean_tag: result of the latest call
  tag_once,        \* clean_tag: result of the first call
  tag_calls,       \* clean_tag: calls made
  set_calls        \* set_player_tag: the calls made, in the order they began

vars == << roster, players, roles, pc, run, option_exec, member_models,
           discord_member, idx, discord_members, audit_results, ops, roles0,
           prev_exec, tag_in, tag_out, tag_once, tag_calls, set_calls >>

auditVars == << roster, players, roles, pc, run, option_exec, member_models,
                discord_member, idx, discord_members, audit_results, ops,
                roles0, prev_exec >>

tagVars == << tag_in, tag_out, tag_once, tag_calls >>

callVars == << set_calls >>

EmptyResults ==
  [ elder_promotion_req    |-> <<>>,
    coleader_promotion_req |-> <<>>,
    leader_promotion_req   |-> <<>>,
    no_discord             |-> <<>>,
    no_clan_role           |-> <<>>,
    no_member_role         |-> <<>>,
    not_in_our_clans       |-> <<>> ]

\* ---------------------------------------------------- family_member_models
\* every member record of every clan, its tag cleaned
family_member_models(api) ==
  [i \in 1..Len(api) |-> [api[i] EXCEPT !.tag = clean_tag(api[i].tag)]]

\* ------------------------------------------------------------ racfaudit_run
\* parse the options, fetch the member models
Start(x) ==
  /\ pc = "idle"
  /\ pc' = "associate"
  /\ run' = run + 1
  /\ option_exec' = x
  /\ member_models' = family_member_models(roster)
  /\ discord_member' = <<>>
  /\ idx' = 1
  /\ discord_members' = <<>>
  /\ audit_results' = EmptyResults
  /\ ops' = <<>>
  /\ roles0' = roles
  /\ UNCHANGED << roster, players, roles, prev_exec >>
  /\ UNCHANGED tagVars
  /\ UNCHANGED callVars

\* self.players[clean_tag(tag)]["user_id"], then server.get_member; a
\* KeyError leaves the key 'discord_member' unset, which .get reads as None
lookup(mm) ==
  LET tag == clean_tag(mm.tag)
  IN  IF tag \in DOMAIN players THEN get_member(players[tag].user_id)
      ELSE NoneStr

\* associate Discord user to member (the whole loop)
Associate ==
  /\ pc = "associate"
  /\ discord_member' = [i \in 1..Len(member_models) |-> lookup(member_models[i])]
  /\ idx' = 1
  /\ pc' = IF Len(member_models) = 0 THEN "orphans" ELSE "members"
  /\ UNCHANGED << roster, players, roles, run, option_exec, member_models,
                  discord_members, audit_results, ops, roles0, prev_exec >>
  /\ UNCHANGED tagVars
  /\ UNCHANGED callVars

\* append x to bucket b of the results r
Emit(r, b, x) == [r EXCEPT ![b] = Append(@, x)]

EmitIf(cond, r, b, x) == IF cond THEN Emit(r, b, x) ELSE r

\* the member holds a role whose lower-cased name is tier
HoldsTier(m, tier) == \E r \in roles[m] : lower(r) = tier

\* Promotions with the three tiers tested as alternatives (elif)
Promotions_exclusive(r, i, m) ==
  LET role == member_models[i].role
  IN  IF HoldsTier(m, "elder")
        THEN EmitIf(lower(role) # "elder", r, "elder_promotion_req", i)
      ELSE IF HoldsTier(m, "coleader")
        THEN EmitIf(lower(role) # "coleader", r, "coleader_promotion_req", i)
      ELSE EmitIf(HoldsTier(m, "leader") /\ lower(role) # "leader",
                  r, "leader_promotion_req", i)

\* lines 650-668: the promotion buckets of roster position i, member m.
\* Only reached when no .lower() of a missing role is evaluated.
Promotions(r, i, m) ==
  LET role == member_models[i].role
      r1 == EmitIf(HoldsTier(m, "elder") /\ lower(role) # "elder",
                   r, "elder_promotion_req", i)
      r2 == EmitIf(HoldsTier(m, "coleader") /\ lower(role) # "coleader",
                   r1, "coleader_promotion_req", i)
  IN  EmitIf(HoldsTier(m, "leader") /\ lower(role) # "leader",
             r2, "leader_promotion_req", i)

\* member_model.get('role').lower() is evaluated, on None, as soon as the
\* member holds one of the three tier roles: AttributeError
RoleRaises(i, m) ==
  /\ member_models[i].role = NoneStr
  /\ \E tier \in {"elder", "coleader", "leader"} : HoldsTier(m, tier)

\* self.clan_roles[clan_name] of a clan that is no key: KeyError
ClanRaises(i) == member_models[i].clan \notin DOMAIN clan_roles

\* lines 670-682: the clan role and member role buckets
ClanAndMember(r, i, m) ==
  LET clan_role_name == clan_roles[member_models[i].clan]
      r1 == EmitIf(clan_role_name \notin roles[m], r, "no_clan_role",
                   [discord_member |-> m, member_model |-> i])
  IN  EmitIf("Member" \notin roles[m], r1, "no_member_role", m)

\* one iteration of the loop over member_models (lines 641-682); an
\* exception leaves the loop, and the command, where it was raised
ClassifyMember ==
  /\ pc = "members"
  /\ idx <= Len(member_models)
  /\ LET m == discord_member[idx]
     IN  IF m = NoneStr
           THEN /\ audit_results' = Emit(audit_results, "no_discord", idx)
                /\ discord_members' = discord_members
                /\ idx' = idx + 1
                /\ pc' = IF idx = Len(member_models) THEN "orphans" ELSE "members"
           ELSE /\ discord_members' = Append(discord_members, m)
                /\ IF RoleRaises(idx, m)
                     THEN /\ audit_results' = audit_results
                          /\ idx' = idx
                          /\ pc' = "aborted"
                     ELSE IF ClanRaises(idx)
                     THEN /\ audit_results' = Promotions(audit_results, idx, m)
                          /\ idx' = idx
                          /\ pc' = "aborted"
                     ELSE /\ audit_results' =
                               ClanAndMember(Promotions(audit_results, idx, m), idx, m)
                          /\ idx' = idx + 1
                          /\ pc' = IF idx = Len(member_models)
                                     THEN "orphans" ELSE "members"
  /\ UNCHANGED << roster, players, roles, run, option_exec, member_models,
                  discord_member, ops, roles0, prev_exec >>
  /\ UNCHANGED tagVars
  /\ UNCHANGED callVars

\* the first exec loop, from phase p on, that has something to do
FirstPhase(p, r) ==
  IF p <= 1 /\ r.no_clan_role # <<>> THEN "clan_role"
  ELSE IF p <= 2 /\ r.no_member_role # <<>> THEN "member_role"
  ELSE IF p <= 3 /\ r.not_in_our_clans # <<>> THEN "not_in_clans"
  ELSE "finish"

\* NotInOurClans without the test against discord_members
NotInOurClans_all ==
  SelectSeq(ServerMembers, LAMBDA user : "Member" \in roles[user])

\* lines 685-689: the members of the server, in its order, who hold Member
\* and were not resolved from the roster
NotInOurClans ==
  SelectSeq(ServerMembers,
            LAMBDA user : "Member" \in roles[user]
                          /\ user \notin Range(discord_members))

\* FindNotInOurClans going on to the exec loops whatever the option
FindNotInOurClans_always ==
  /\ pc = "orphans"
  /\ audit_results' = [audit_results EXCEPT !.not_in_our_clans = NotInOurClans]
  /\ idx' = 1
  /\ pc' = FirstPhase(1, audit_results')
  /\ UNCHANGED << roster, players, roles, run, option_exec, member_models,
                  discord_member, discord_members, ops, roles0, prev_exec >>
  /\ UNCHANGED tagVars
  /\ UNCHANGED callVars

\* find discord member with roles (the whole loop), then the report
FindNotInOurClans ==
  /\ pc = "orphans"
  /\ audit_results' = [audit_results EXCEPT !.not_in_our_clans = NotInOurClans]
  /\ idx' = 1
  /\ pc' = IF option_exec THEN FirstPhase(1, audit_results') ELSE "finish"
  /\ UNCHANGED << roster, players, roles, run, option_exec, member_models,
                  discord_member, discord_members, ops, roles0, prev_exec >>
  /\ UNCHANGED tagVars
  /\ UNCHANGED callVars

\* ------------------------------------------------------------- exec phase
\* one add_roles / remove_roles call: the member, the role names given, the
\* loop it was made in and the position in that loop's bucket
Op(m, action, names, phase, item) ==
  [member |-> m, action |-> action, roles |-> names, phase |-> phase, item |-> item]

\* the effect of the calls on the role sets, in the order they are made
RECURSIVE ApplyOps(_, _)
ApplyOps(rs, calls) ==
  IF calls = <<>> THEN rs
  ELSE LET op == Head(calls)
           after == IF op.action = "add"
                      THEN [rs EXCEPT ![op.member] = @ \cup Range(op.roles)]
                      ELSE [rs EXCEPT ![op.member] = @ \ Range(op.roles)]
       IN  ApplyOps(after, Tail(calls))

\* line 777: every clan role name but the member's own clan's
other_clan_role_names(clan_role_name) ==
  SelectSeq(clan_role_values(1), LAMBDA r : r # clan_role_name)

\* ClanRoleCalls with the add made before the removes
ClanRoleCalls_addfirst(item) ==
  LET result == audit_results.no_clan_role[item]
      m == result.discord_member
      clan_role_name == clan_roles[member_models[result.member_model].clan]
      held == SelectSeq(other_clan_role_names(clan_role_name),
                        LAMBDA r : r \in roles[m])
  IN  << Op(m, "add", <<clan_role_name>>, "clan_role", item) >>
      \o [k \in 1..Len(held) |-> Op(m, "remove", <<held[k]>>, "clan_role", item)]

\* lines 774-788: the calls for the pairing at position item of no_clan_role:
\* a remove for each other clan role the member holds, then the add
ClanRoleCalls(item) ==
  LET result == audit_results.no_clan_role[item]
      m == result.discord_member
      clan_role_name == clan_roles[member_models[result.member_model].clan]
      held == SelectSeq(other_clan_role_names(clan_role_name),
                        LAMBDA r : r \in roles[m])
  IN  [k \in 1..Len(held) |-> Op(m, "remove", <<held[k]>>, "clan_role", item)]
      \o << Op(m, "add", <<clan_role_name>>, "clan_role", item) >>

\* change clan roles: one iteration
ExecClanRole ==
  /\ pc = "clan_role"
  /\ idx <= Len(audit_results.no_clan_role)
  /\ LET calls == ClanRoleCalls(idx)
     IN  /\ ops' = ops \o calls
         /\ roles' = ApplyOps(roles, calls)
  /\ IF idx = Len(audit_results.no_clan_role)
       THEN pc' = FirstPhase(2, audit_results) /\ idx' = 1
       ELSE pc' = pc /\ idx' = idx + 1
  /\ UNCHANGED << roster, players, run, option_exec, member_models,
                  discord_member, discord_members, audit_results, roles0,
                  prev_exec >>
  /\ UNCHANGED tagVars
  /\ UNCHANGED callVars

\* MemberRoleCalls with Visitor removed only from a member who holds it
MemberRoleCalls_ifheld(item) ==
  LET m == audit_results.no_member_role[item]
  IN  << Op(m, "add", <<"Member">>, "member_role", item) >>
      \o (IF "Visitor" \in roles[m]
            THEN << Op(m, "remove", <<"Visitor">>, "member_role", item) >>
            ELSE <<>>)

\* lines 796-799: add Member, remove Visitor
MemberRoleCalls(item) ==
  LET m == audit_results.no_member_role[item]
  IN  << Op(m, "add", <<"Member">>, "member_role", item),
         Op(m, "remove", <<"Visitor">>, "member_role", item) >>

\* the no_member_role loop: one iteration
ExecMemberRole ==
  /\ pc = "member_role"
  /\ idx <= Len(audit_results.no_member_role)
  /\ LET calls == MemberRoleCalls(idx)
     IN  /\ ops' = ops \o calls
         /\ roles' = ApplyOps(roles, calls)
  /\ IF idx = Len(audit_results.no_member_role)
       THEN pc' = FirstPhase(3, audit_results) /\ idx' = 1
       ELSE pc' = pc /\ idx' = idx + 1
  /\ UNCHANGED << roster, players, run, option_exec, member_models,
                  discord_member, discord_members, audit_results, roles0,
                  prev_exec >>
  /\ UNCHANGED tagVars
  /\ UNCHANGED callVars

\* IsExempt without the test of Leader-Emeritus
IsExempt_two(names) == "Special" \in names \/ "Keep-Member" \in names

\* lines 807-812: people with one of these roles are left alone
IsExempt(names) ==
  \/ "Special" \in names
  \/ "Keep-Member" \in names
  \/ "Leader-Emeritus" \in names

\* to_remove_role_names without the test that the member holds the role
to_remove_role_names_all(names) == <<"Member", "Tourney", "Practice">>

\* to_remove_role_names that takes away Member alone
to_remove_role_names_member(names) ==
  SelectSeq(<<"Member">>, LAMBDA r : r \in names)

\* lines 814-817: the roles to take away, of those the member holds
to_remove_role_names(names) ==
  SelectSeq(<<"Member", "Tourney", "Practice">>, LAMBDA r : r \in names)

\* lines 805-825: the calls for the member at position item of
\* not_in_our_clans, read from the member's roles as they are now
NotInOurClansCalls(item) ==
  LET result == audit_results.not_in_our_clans[item]
      result_role_names == roles[result]
  IN  IF IsExempt(result_role_names) THEN <<>>
      ELSE << Op(result, "remove", to_remove_role_names(result_role_names),
                 "not_in_clans", item),
              Op(result, "add", <<"Visitor">>, "not_in_clans", item) >>

\* remove member roles from people who are not in our clans: one iteration
ExecNotInOurClans ==
  /\ pc = "not_in_clans"
  /\ idx <= Len(audit_results.not_in_our_clans)
  /\ LET calls == NotInOurClansCalls(idx)
     IN  /\ ops' = ops \o calls
         /\ roles' = ApplyOps(roles, calls)
  /\ IF idx = Len(audit_results.not_in_our_clans)
       THEN pc' = "finish" /\ idx' = 1
       ELSE pc' = pc /\ idx' = idx + 1
  /\ UNCHANGED << roster, players, run, option_exec, member_models,
                  discord_member, discord_members, audit_results, roles0,
                  prev_exec >>
  /\ UNCHANGED tagVars
  /\ UNCHANGED callVars

\* "Audit finished."
Finish ==
  /\ pc = "finish"
  /\ pc' = "finished"
  /\ UNCHANGED << roster, players, roles, run, option_exec, member_models,
                  discord_member, idx, discord_members, audit_results, ops,
                  roles0, prev_exec >>
  /\ UNCHANGED tagVars
  /\ UNCHANGED callVars

\* the command is given again, over the same roster and the roles as they
\* now are; nothing of the previous run is kept
Rerun ==
  /\ pc \in {"finished", "aborted"}
  /\ run < MaxRuns
  /\ pc' = "idle"
  /\ prev_exec' = (pc = "finished" /\ option_exec)
  /\ member_models' = <<>>
  /\ discord_member' = <<>>
  /\ idx' = 1
  /\ discord_members' = <<>>
  /\ audit_results' = EmptyResults
  /\ ops' = <<>>
  /\ roles0' = roles
  /\ option_exec' = FALSE
  /\ UNCHANGED << roster, players, roles, run >>
  /\ UNCHANGED tagVars
  /\ UNCHANGED callVars

\* ---------------------------------------------------------- set_player_tag
\* set_player_tag(tag, member, force) is called: the coroutine runs to its
\* await asyncio.sleep(0) and gives way to the other tasks
SetPlayerTagCall(tag, member, force) ==
  /\ Len(set_calls) < MaxCalls
  /\ set_calls' = Append(set_calls, [tag |-> tag, member |-> member, force |-> force,
                             pc |-> "sleep", result |-> FALSE])
  /\ UNCHANGED auditVars
  /\ UNCHANGED tagVars

\* set_player_tag that never finds the key taken
KeyTaken_never(c) == FALSE

\* lines 336-338: the key is in the store, and the call does not force
KeyTaken(c) == set_calls[c].tag \in DOMAIN players /\ ~set_calls[c].force

\* lines 339-343: the store with the call's record under the tag as given
WithRecord(c) ==
  [k \in DOMAIN players \cup {set_calls[c].tag} |->
     IF k = set_calls[c].tag THEN PlayerRecord(set_calls[c].tag, set_calls[c].member)
     ELSE players[k]]

\* the call c is resumed and runs to its return: the store is loaded, the
\* key tested, the record written and the store saved with no await between
SetPlayerTagBody(c) ==
  /\ c \in 1..Len(set_calls)
  /\ set_calls[c].pc = "sleep"
  /\ IF KeyTaken(c)
       THEN /\ players' = players
            /\ set_calls' = [set_calls EXCEPT ![c].pc = "done", ![c].result = FALSE]
       ELSE /\ players' = WithRecord(c)
            /\ set_calls' = [set_calls EXCEPT ![c].pc = "done", ![c].result = TRUE]
  /\ UNCHANGED << roster, roles, pc, run, option_exec, member_models,
                  discord_member, idx, discord_members, audit_results, ops,
                  roles0, prev_exec >>
  /\ UNCHANGED tagVars

\* --------------------------------------------------------------- clean_tag
\* clean_tag applied to the result of the call before
CleanTag ==
  /\ tag_calls < 2
  /\ tag_out' = clean_tag(tag_out)
  /\ tag_once' = IF tag_calls = 0 THEN clean_tag(tag_out) ELSE tag_once
  /\ tag_calls' = tag_calls + 1
  /\ UNCHANGED tag_in
  /\ UNCHANGED auditVars
  /\ UNCHANGED callVars

\* ------------------------------------------------------------------ inputs
\* a member record as the API gives it
Entry(tag, clan, role, name, trophies) ==
  [tag |-> tag, name |-> name, role |-> role, trophies |-> trophies, clan |-> clan]

\* the rosters of at most MaxRoster records of E; a player is in one clan
Rosters(E) ==
  {r \in UNION {[1..n -> E] : n \in 0..MaxRoster} :
     \A i, j \in 1..Len(r) :
        (i # j /\ r[i].tag # NoneTag) => r[i].tag # r[j].tag}

\* the player store after set_player_tag(key, id) for each <<key, id>>
Store(links) ==
  [k \in {l[1] : l \in links} |->
     PlayerRecord(k, (CHOOSE l \in links : l[1] = k)[2])]

\* strings over TagChars of at most MaxTagLen characters
TagStrings == UNION {[1..n -> TagChars] : n \in 0..MaxTagLen}

TagExamples ==
  { <<"#", "2", "2", "Q", "0", "V", "G", "U", "P">>,
    <<" ", "2", "2", "q", "0", "v", "g", "u", "p", " ">> }

InitRun ==
  /\ pc = "idle"
  /\ run = 0
  /\ option_exec = FALSE
  /\ member_models = <<>>
  /\ discord_member = <<>>
  /\ idx = 1
  /\ discord_members = <<>>
  /\ audit_results = EmptyResults
  /\ ops = <<>>
  /\ roles0 = roles
  /\ prev_exec = FALSE

InitNoTag ==
  /\ tag_in = <<>>
  /\ tag_out = <<>>
  /\ tag_once = <<>>
  /\ tag_calls = 0

InitNoCalls == set_calls = <<>>

InitAudit(rosters, roleNames, links) ==
  /\ roster \in rosters
  /\ players = Store(links)
  /\ roles \in [Range(ServerMembers) -> SUBSET roleNames]
  /\ InitRun
  /\ InitNoTag
  /\ InitNoCalls

\* ---------------------------------------------------------- specifications
\* tags "2" and "Q" are linked to m1 and m2, "22" to someone who left the
\* server, "QQ" to nobody; Mini is a clan the config gives no role
Init ==
  InitAudit(
    Rosters({Entry(t, c, "member", "n", 0) :
               t \in { <<"#", "2">>, <<"#", "q">>, <<"#", "2", "2">>,
                       <<"#", "Q", "Q">> },
               c \in {"Alpha", "Charlie", "Mini"}}),
    {"Member", "AlphaRole", "BravoRole"},
    { << <<"2">>, "m1" >>, << <<"Q">>, "m2" >>, << <<"2", "2">>, "m9" >> })

Next ==
  \/ \E x \in BOOLEAN : Start(x)
  \/ Associate
  \/ ClassifyMember
  \/ FindNotInOurClans
  \/ ExecClanRole
  \/ ExecMemberRole
  \/ ExecNotInOurClans
  \/ Finish

Spec == Init /\ [][Next]_vars

\* the audit run again after a run: m1 plays two accounts
InitRerun ==
  InitAudit(
    Rosters({Entry(t, c, "member", "n", 0) :
               t \in { <<"#", "2">>, <<"#", "q">> }, c \in {"Alpha", "Bravo"}}),
    {"Member", "AlphaRole", "BravoRole"},
    { << <<"2">>, "m1" >>, << <<"Q">>, "m1" >> })

NextRerun == Next \/ Rerun

SpecRerun == InitRerun /\ [][NextRerun]_vars

\* the roles the last exec loop looks at
InitExempt ==
  InitAudit(
    Rosters({Entry(t, "Alpha", "member", "n", 0) :
               t \in { <<"#", "2">>, <<"#", "Q", "Q">> }}),
    {"Member", "Special", "Keep-Member", "Leader-Emeritus", "Tourney", "Practice"},
    { << <<"2">>, "m1" >> })

SpecExempt == InitExempt /\ [][Next]_vars

\* the tier roles, in the spellings a server may give them, and the roles
\* the API reports; a record may lack its role
InitPromo ==
  InitAudit(
    Rosters({Entry(t, "Alpha", r, "n", 0) :
               t \in { <<"#", "2">>, <<"#", "q">> },
               r \in {"member", "elder", "coLeader", "leader", NoneStr}}),
    {"Member", "Elder", "coleader", "Co-Leader", "Leader"},
    { << <<"2">>, "m1" >>, << <<"Q">>, "m2" >> })

SpecPromo == InitPromo /\ [][Next]_vars

\* records that lack a field
InitMalformed ==
  InitAudit(
    Rosters({Entry(t, "Alpha", r, n, tr) :
               t \in { <<"#", "2">>, NoneTag }, r \in {"member", NoneStr},
               n \in {"n", NoneStr}, tr \in {0, NoneInt}}),
    {"Member", "Elder", "AlphaRole"},
    { << <<"2">>, "m1" >> })

SpecMalformed == InitMalformed /\ [][Next]_vars

\* the roles the no_member_role loop gives and takes
InitMember ==
  InitAudit(
    Rosters({Entry(t, "Alpha", "member", "n", 0) :
               t \in { <<"#", "2">>, <<"#", "q">> }}),
    {"Member", "Visitor", "AlphaRole"},
    { << <<"2">>, "m1" >>, << <<"Q">>, "m2" >> })

SpecMember == InitMember /\ [][Next]_vars

\* set_player_tag called by other programs, on an empty store: "#2" and
\* "2" are one tag written two ways
CallTags == { <<"#", "2">>, <<"2">>, <<"Q">> }

InitPlayers ==
  /\ roster = <<>>
  /\ players = Store({})
  /\ roles = [m \in Range(ServerMembers) |-> {}]
  /\ InitRun
  /\ InitNoTag
  /\ InitNoCalls

NextPlayers ==
  \/ \E tag \in CallTags, member \in Range(ServerMembers), force \in BOOLEAN :
        SetPlayerTagCall(tag, member, force)
  \/ \E c \in 1..MaxCalls : SetPlayerTagBody(c)

SpecPlayers == InitPlayers /\ [][NextPlayers]_vars

\* clean_tag on its own
InitTag ==
  /\ tag_in \in TagStrings \cup TagExamples
  /\ tag_out = tag_in
  /\ tag_once = <<>>
  /\ tag_calls = 0
  /\ roster = <<>>
  /\ players = Store({})
  /\ roles = [m \in Range(ServerMembers) |-> {}]
  /\ InitRun
  /\ InitNoCalls

NextTag == CleanTag

SpecTag == InitTag /\ [][NextTag]_vars

\* ================================================================== claims
\* the roster positions whose loop iteration has run to its end
Classified ==
  CASE pc \in {"idle", "associate"} -> 0
    [] pc \in {"members", "aborted"} -> idx - 1
    [] OTHER -> Len(member_models)

\* the not_in_our_clans bucket has been filled
OrphansFound ==
  pc \in {"clan_role", "member_role", "not_in_clans", "finish", "finished"}

ExemptRoleNames == {"Special", "Keep-Member", "Leader-Emeritus"}

\* the calls made so far by the loop `phase` for the member m
CallsFor(phase, m) ==
  {k \in 1..Len(ops) : ops[k].phase = phase /\ ops[k].member = m}

\* C2: clean_tag is idempotent on every string, and "#22Q0VGUP" and
\* " 22q0vgup " both give "22Q0VGUP".
C2_CleanTagIdempotent ==
  /\ tag_calls = 2 => tag_out = tag_once
  /\ (tag_calls >= 1 /\ tag_in \in TagExamples) =>
        tag_once = <<"2", "2", "Q", "0", "V", "G", "U", "P">>

\* C3: a member of not_in_our_clans who held Special, Keep-Member or
\* Leader-Emeritus when the run classified them gets no add_roles and no
\* remove_roles call from the not_in_our_clans loop.
C3_ExemptNoCalls ==
  \A i \in 1..Len(audit_results.not_in_our_clans) :
     LET m == audit_results.not_in_our_clans[i]
     IN  roles0[m] \cap ExemptRoleNames # {} => CallsFor("not_in_clans", m) = {}

\* C3 witness: the loop has run over an exempt member who holds only
\* Leader-Emeritus and Member, and has changed another member's roles
C3_Witness ==
  /\ pc = "finished"
  /\ option_exec
  /\ audit_results.not_in_our_clans = <<"m1", "m2">>
  /\ roles0["m1"] = {"Member", "Leader-Emeritus"}
  /\ CallsFor("not_in_clans", "m1") = {}
  /\ CallsFor("not_in_clans", "m2") # {}

\* the role names of the config's clans of type Member
MemberClanRoleNames ==
  {Config[i].role_name : i \in {j \in 1..Len(Config) : Config[j].type = "Member"}}

\* the names of the config's clans of type Member
MemberClanNames ==
  {Config[i].name : i \in {j \in 1..Len(Config) : Config[j].type = "Member"}}

\* the role name the config gives the clan named c, a clan of type Member
ConfiguredRole(c) ==
  Config[CHOOSE i \in 1..Len(Config) :
           Config[i].type = "Member" /\ Config[i].name = c].role_name

\* C4, the calls made so far: within no_clan_role's loop the calls follow
\* the bucket's order, and the calls of one pairing are removes of single
\* other clan roles followed by exactly one add, of the target clan's role.
C4_CallsInOrder ==
  \A k \in 1..Len(ops) :
     ops[k].phase = "clan_role" =>
       LET p == audit_results.no_clan_role[ops[k].item]
           target == ConfiguredRole(roster[p.member_model].clan)
           last == \A j \in (k + 1)..Len(ops) :
                      ~(ops[j].phase = "clan_role" /\ ops[j].item = ops[k].item)
       IN  /\ ops[k].member = p.discord_member
           /\ Len(ops[k].roles) = 1
           /\ \A j \in 1..(k - 1) :
                 ops[j].phase = "clan_role" /\ ops[j].item <= ops[k].item
           /\ IF ops[k].action = "add"
                THEN ops[k].roles[1] = target /\ last
                ELSE /\ ops[k].roles[1] \in MemberClanRoleNames \ {target}
                     /\ ~last

\* C4, one pairing: the step that handles the pairing at idx removes exactly
\* the other clan roles the member holds when the step begins, and adds the
\* target clan's role once it has.
C4_PairingStep ==
  (pc = "clan_role" /\ ops' # ops) =>
     LET p == audit_results.no_clan_role[idx]
         m == p.discord_member
         target == ConfiguredRole(roster[p.member_model].clan)
         new == SubSeq(ops', Len(ops) + 1, Len(ops'))
         removes == {k \in 1..Len(new) : new[k].action = "remove"}
     IN  /\ SubSeq(ops', 1, Len(ops)) = ops
         /\ \A k \in 1..Len(new) : new[k].phase = "clan_role" /\ new[k].item = idx
         /\ {new[k].roles[1] : k \in removes} =
               (MemberClanRoleNames \ {target}) \cap roles[m]
         /\ Cardinality(removes) = Len(new) - 1
         /\ new[Len(new)].action = "add"
         /\ roles'[m] = (roles[m] \ (MemberClanRoleNames \ {target})) \cup {target}

\* C4: for each no_clan_role pairing, in bucket order, the exec phase
\* removes every configured clan role other than the target clan's that the
\* member holds, and only those, and then adds the target clan's role: every
\* remove of a pairing precedes its add, and the calls of one pairing precede
\* those of the next.
C4_RevokeThenGrant == [](C4_CallsInOrder) /\ [][C4_PairingStep]_vars

\* C4 witness: the first pairing had two other clan roles removed and then
\* its own added, and the second pairing's calls follow
C4_Witness ==
  /\ Len(ops) >= 4
  /\ ops[1].action = "remove" /\ ops[1].item = 1
  /\ ops[2].action = "remove" /\ ops[2].item = 1
  /\ ops[3].action = "add" /\ ops[3].item = 1
  /\ ops[4].phase = "clan_role" /\ ops[4].item = 2

\* C5: a resolved roster entry whose clan has no entry in clan_roles does
\* not fail the run: the run is never aborted at such an entry, and the
\* entries after it are classified.
C5_UnknownClanDoesNotFailRun ==
  ~(pc = "aborted" /\ member_models[idx].clan \notin MemberClanNames)

\* a tag in the form the store's keys have: upper case, no '#', no blanks
NormalTag(t) == SelectSeq(upper(t), LAMBDA c : c # "#" /\ ~IsSpace(c))

\* roster entry i resolves to the community member m: the store links the
\* entry's tag to m, and m is in the member directory
ResolvesTo(i, m) ==
  /\ m \in Range(ServerMembers)
  /\ roster[i].tag # NoneTag
  /\ NormalTag(roster[i].tag) \in DOMAIN players
  /\ players[NormalTag(roster[i].tag)].user_id = m

Resolves(i) == \E m \in Range(ServerMembers) : ResolvesTo(i, m)

IsStrictlyIncreasing(s) == \A i, j \in 1..Len(s) : i < j => s[i] < s[j]

\* C8: once filled, not_in_our_clans is the member directory, in its order,
\* cut down to the members who held Member when the run classified them and
\* whom no roster entry resolves to; at no time does it hold a member some
\* roster entry resolves to, or a member twice.
C8_NotInOurClansExact ==
  /\ OrphansFound =>
       audit_results.not_in_our_clans =
         SelectSeq(ServerMembers,
                   LAMBDA u : "Member" \in roles0[u]
                              /\ ~\E i \in 1..Len(roster) : ResolvesTo(i, u))
  /\ \A k \in 1..Len(audit_results.not_in_our_clans) :
        /\ ~\E i \in 1..Len(roster) :
              ResolvesTo(i, audit_results.not_in_our_clans[k])
        /\ \A j \in 1..Len(audit_results.not_in_our_clans) :
              audit_results.not_in_our_clans[j] = audit_results.not_in_our_clans[k]
                => j = k

\* C8 witness: m1 is resolved from the roster and holds Member, m2 holds
\* Member and is not resolved: the bucket is m2 alone
C8_Witness ==
  /\ pc = "finish"
  /\ \E i \in 1..Len(roster) : ResolvesTo(i, "m1")
  /\ "Member" \in roles0["m1"]
  /\ audit_results.not_in_our_clans = <<"m2">>

\* C9: of the roster entries the loop has gone over, no_discord holds, once
\* each and in roster order, exactly those whose tag resolves to no community
\* member, and the resolved-pair checks were entered, in roster order, for
\* exactly the others; when the loop has ended, it has gone over every entry.
C9_NoDiscordOrResolved ==
  LET entered == Classified + (IF pc = "aborted" THEN 1 ELSE 0)
  IN  /\ IsStrictlyIncreasing(audit_results.no_discord)
      /\ Range(audit_results.no_discord) = {i \in 1..entered : ~Resolves(i)}
      /\ Len(discord_members) = Cardinality({i \in 1..entered : Resolves(i)})
      /\ \A i \in 1..entered :
            Resolves(i) =>
              ResolvesTo(i, discord_members[Cardinality({j \in 1..i : Resolves(j)})])
      /\ pc \in {"orphans", "finish", "finished"} => entered = Len(roster)

\* C9 witness: a roster of a resolved entry and an entry linked to someone
\* who left the server has been classified
C9_Witness ==
  /\ pc = "orphans"
  /\ Len(audit_results.no_discord) >= 1
  /\ Len(discord_members) >= 1
  /\ \E i \in Range(audit_results.no_discord) :
        NormalTag(roster[i].tag) \in DOMAIN players

\* C10: a resolved entry the loop has gone over is paired with its member in
\* no_clan_role exactly if the member, when classified, did not hold the
\* role the config gives the entry's clan; the clan is one of type Member,
\* and the bucket holds nothing else.
C10_NoClanRoleIff ==
  /\ \A i \in 1..Classified :
        Resolves(i) =>
          /\ roster[i].clan \in MemberClanNames
          /\ ([discord_member |-> discord_member[i], member_model |-> i]
                 \in Range(audit_results.no_clan_role))
             <=> (ConfiguredRole(roster[i].clan) \notin roles0[discord_member[i]])
  /\ \A k \in 1..Len(audit_results.no_clan_role) :
        LET p == audit_results.no_clan_role[k]
        IN  /\ p.member_model \in 1..Classified
            /\ ResolvesTo(p.member_model, p.discord_member)

\* C10 witness: of two resolved entries, one is paired in no_clan_role and
\* the other, whose member holds the clan's role, is not
C10_Witness ==
  /\ pc = "finish"
  /\ Len(discord_members) = 2
  /\ Len(audit_results.no_clan_role) = 1

Tiers == {"elder", "coleader", "leader"}

PromotionBucket(tier) ==
  CASE tier = "elder" -> audit_results.elder_promotion_req
    [] tier = "coleader" -> audit_results.coleader_promotion_req
    [] tier = "leader" -> audit_results.leader_promotion_req

\* C7: a resolved entry the loop has gone over is in a tier's promotion
\* bucket exactly if its member, when classified, held a role named as the
\* tier, whatever the case of its letters, and the entry's in-game role is
\* not the tier, whatever the case; each tier is decided on its own.
C7_PromotionIff ==
  \A i \in 1..Classified :
     discord_member[i] # NoneStr =>
       \A tier \in Tiers :
          (i \in Range(PromotionBucket(tier)))
          <=> /\ \E r \in roles0[discord_member[i]] : lower(r) = tier
              /\ lower(roster[i].role) # tier

\* C7 witness: one entry is in the elder and in the leader bucket, and
\* another entry, whose member holds Co-Leader, is in no bucket
C7_Witness ==
  /\ pc = "finish"
  /\ \E i \in 1..Len(roster) :
        /\ i \in Range(audit_results.elder_promotion_req)
        /\ i \in Range(audit_results.leader_promotion_req)
  /\ \E i \in 1..Len(roster) :
        /\ discord_member[i] # NoneStr
        /\ "Co-Leader" \in roles0[discord_member[i]]
        /\ \A tier \in Tiers : i \notin Range(PromotionBucket(tier))

\* a record that lacks one of tag, name, role, trophies
Malformed(e) ==
  \/ e.tag = NoneTag
  \/ e.name = NoneStr
  \/ e.role = NoneStr
  \/ e.trophies = NoneInt

\* roster position i is in one of the buckets
InSomeBucket(i) ==
  \/ i \in Range(audit_results.no_discord)
  \/ \E tier \in Tiers : i \in Range(PromotionBucket(tier))
  \/ \E k \in 1..Len(audit_results.no_clan_role) :
        audit_results.no_clan_role[k].member_model = i

\* C6: a roster record that lacks a required field is skipped: it is in no
\* bucket, and the run is not aborted at it.
C6_MalformedSkipped ==
  \A i \in 1..Len(member_models) :
     Malformed(roster[i]) =>
       /\ ~InSomeBucket(i)
       /\ ~(pc = "aborted" /\ idx = i)

\* C1: a run that follows a run which executed all its role changes makes no
\* add_roles and no remove_roles call.
C1_RerunMakesNoCalls == prev_exec => ops = <<>>

\* the calls a step has added to ops
NewCalls == SubSeq(ops', Len(ops) + 1, Len(ops'))

\* C11, the bucket: no_member_role holds, in roster order, the member of
\* every resolved entry the loop has gone over whose member did not hold
\* Member when classified, and nobody else; after an exec run each of them
\* holds Member and not Visitor.
C11_NoMemberRoleBucket ==
  LET lacking == {i \in 1..Classified :
                    Resolves(i) /\ "Member" \notin roles0[discord_member[i]]}
  IN  /\ Len(audit_results.no_member_role) = Cardinality(lacking)
      /\ \A i \in lacking :
            audit_results.no_member_role[Cardinality({j \in lacking : j <= i})]
              = discord_member[i]
      /\ (pc = "finished" /\ option_exec) =>
            \A k \in 1..Len(audit_results.no_member_role) :
               /\ "Member" \in roles[audit_results.no_member_role[k]]
               /\ "Visitor" \notin roles[audit_results.no_member_role[k]]

\* C11, one member: the step for the member at idx calls add_roles with
\* Member and then remove_roles with Visitor, whether or not the member
\* holds Visitor; nobody else's roles change, and the loop goes on to the
\* next member.
C11_MemberStep ==
  pc = "member_role" =>
     LET m == audit_results.no_member_role[idx]
     IN  /\ SubSeq(ops', 1, Len(ops)) = ops
         /\ Len(NewCalls) = 2
         /\ NewCalls[1].member = m /\ NewCalls[1].action = "add"
         /\ NewCalls[1].roles = <<"Member">>
         /\ NewCalls[2].member = m /\ NewCalls[2].action = "remove"
         /\ NewCalls[2].roles = <<"Visitor">>
         /\ roles' = [roles EXCEPT ![m] = (@ \cup {"Member"}) \ {"Visitor"}]
         /\ pc' # "aborted"
         /\ idx < Len(audit_results.no_member_role) =>
               pc' = "member_role" /\ idx' = idx + 1

\* C11: for each member of no_member_role (a resolved member whose roles
\* lack Member) the exec phase adds Member and removes Visitor; the removal
\* is called for a member without Visitor too, changes nothing then, and
\* does not stop the calls that follow.
C11_GrantMemberRevokeVisitor ==
  [](C11_NoMemberRoleBucket) /\ [][C11_MemberStep]_vars

\* C11 witness: m1, without Visitor, and m2, with Visitor, have both been
\* through the loop: four calls, and m1's roles are as before plus Member
C11_Witness ==
  /\ pc = "finished"
  /\ option_exec
  /\ audit_results.no_member_role = <<"m1", "m2">>
  /\ "Visitor" \notin roles0["m1"]
  /\ "Visitor" \in roles0["m2"]
  /\ Cardinality({k \in 1..Len(ops) : ops[k].phase = "member_role"}) = 4
  /\ "Visitor" \notin roles["m2"]

RemovableRoleNames == {"Member", "Tourney", "Practice"}

\* C12, the calls made so far: a remove_roles call of the not_in_our_clans
\* loop names roles among Member, Tourney and Practice only, each once, and
\* is followed at once by the add_roles call of Visitor for the same member.
C12_RemoveBeforeAdd ==
  \A k \in 1..Len(ops) :
     ops[k].phase = "not_in_clans" =>
       IF ops[k].action = "remove"
         THEN /\ Range(ops[k].roles) \subseteq RemovableRoleNames
              /\ Cardinality(Range(ops[k].roles)) = Len(ops[k].roles)
              /\ k < Len(ops)
              /\ ops[k + 1].phase = "not_in_clans"
              /\ ops[k + 1].action = "add"
              /\ ops[k + 1].member = ops[k].member
              /\ ops[k + 1].item = ops[k].item
         ELSE /\ ops[k].roles = <<"Visitor">>
              /\ k > 1
              /\ ops[k - 1].phase = "not_in_clans"
              /\ ops[k - 1].action = "remove"
              /\ ops[k - 1].item = ops[k].item

\* C12, one member: the step for a member at idx who holds no exempt role
\* makes one remove_roles call, with exactly the roles among Member, Tourney
\* and Practice the member holds, and then one add_roles call with Visitor;
\* the member loses those roles and no other, and nobody else's roles change.
C12_NotInOurClansStep ==
  pc = "not_in_clans" =>
     LET m == audit_results.not_in_our_clans[idx]
     IN  roles[m] \cap ExemptRoleNames = {} =>
           /\ SubSeq(ops', 1, Len(ops)) = ops
           /\ Len(NewCalls) = 2
           /\ NewCalls[1].member = m /\ NewCalls[1].action = "remove"
           /\ Range(NewCalls[1].roles) = RemovableRoleNames \cap roles[m]
           /\ NewCalls[2].member = m /\ NewCalls[2].action = "add"
           /\ NewCalls[2].roles = <<"Visitor">>
           /\ roles' = [roles EXCEPT ![m] = (@ \ RemovableRoleNames) \cup {"Visitor"}]

\* C12: for each member of not_in_our_clans who holds no exempt role, the
\* exec phase removes exactly the roles among Member, Tourney and Practice
\* that the member holds, no other role, and afterwards adds Visitor.
C12_RevokeHeldThenVisitor ==
  [](C12_RemoveBeforeAdd) /\ [][C12_NotInOurClansStep]_vars

\* C12 witness: m2 held Member and Practice but not Tourney; the two were
\* removed in one call, Visitor was added, and m2 is left with Visitor
C12_Witness ==
  /\ pc = "finished"
  /\ option_exec
  /\ roles0["m2"] = {"Member", "Practice"}
  /\ \E k \in 1..Len(ops) :
        /\ ops[k].member = "m2"
        /\ ops[k].action = "remove"
        /\ ops[k].roles = <<"Member", "Practice">>
  /\ roles["m2"] = {"Visitor"}

\* C13: whatever set_player_tag calls were made, no two records of the
\* player store carry the same cleaned tag with different members.
C13_OneMemberPerTag ==
  \A k1, k2 \in DOMAIN players :
     players[k1].tag = players[k2].tag => players[k1].user_id = players[k2].user_id

\* the step ends the set_player_tag call c
Returns(c) ==
  /\ c \in 1..Len(set_calls)
  /\ set_calls[c].pc = "sleep"
  /\ set_calls'[c].pc = "done"

\* C16, the calls that have returned: of the calls without force on one
\* key, at most one has returned True.
C16_OneWinner ==
  \A c1, c2 \in 1..Len(set_calls) :
     ( /\ set_calls[c1].pc = "done" /\ set_calls[c2].pc = "done"
       /\ ~set_calls[c1].force /\ ~set_calls[c2].force
       /\ set_calls[c1].tag = set_calls[c2].tag
       /\ set_calls[c1].result /\ set_calls[c2].result ) => c1 = c2

\* C16, one return: a call without force on a key the store holds returns
\* False and leaves the store as it is; on a key the store does not hold it
\* returns True and stores its member under that key alone; and a record of
\* the store is replaced only by a call with force, on that record's key.
C16_ReturnStep ==
  \A c \in 1..Len(set_calls) :
     Returns(c) =>
       LET key == set_calls[c].tag
       IN  /\ ~set_calls[c].force =>
                IF key \in DOMAIN players
                  THEN ~set_calls'[c].result /\ players' = players
                  ELSE /\ set_calls'[c].result
                       /\ DOMAIN players' = DOMAIN players \cup {key}
                       /\ players'[key].user_id = set_calls[c].member
           /\ \A k \in DOMAIN players :
                 /\ k \in DOMAIN players'
                 /\ players'[k] # players[k] => (set_calls[c].force /\ k = key)

\* C16: set_player_tag without force is first-writer-wins however the calls
\* interleave: of the calls on one key at most one returns True and stores
\* its member, every other returns False and leaves the store unchanged; only
\* a call with force replaces a record.
C16_FirstWriterWins == [](C16_OneWinner) /\ [][C16_ReturnStep]_vars

\* C16 witness: three calls without force on the key "2" were all waiting at
\* once; the second was resumed first, returned True and stored its member,
\* the first and the third returned False
C16_Witness ==
  /\ Len(set_calls) = 3
  /\ \A c \in 1..3 :
        /\ set_calls[c].pc = "done"
        /\ set_calls[c].tag = <<"2">>
        /\ ~set_calls[c].force
  /\ set_calls[1].member = "m1" /\ set_calls[2].member = "m2"
  /\ ~set_calls[1].result /\ set_calls[2].result /\ ~set_calls[3].result
  /\ players[<<"2">>].user_id = "m2"

\* C14: a run without the exec option makes no add_roles and no remove_roles
\* call: at every point of the run each member's roles are the roles the
\* member had when the run started, whatever the buckets contain.
C14_NoExecNoRoleChange ==
  (run > 0 /\ ~option_exec) => (ops = <<>> /\ roles = roles0)

\* C14 witness: a run without exec has finished with something in each of
\* the three buckets the exec loops read
C14_Witness ==
  /\ pc = "finished"
  /\ run > 0
  /\ ~option_exec
  /\ audit_results.no_clan_role # <<>>
  /\ audit_results.no_member_role # <<>>
  /\ audit_results.not_in_our_clans # <<>>

\* the member m was resolved from some roster entry
ResolvedFromRoster(m) == \E i \in 1..Len(roster) : ResolvesTo(i, m)

\* the member m holds one of the exempt roles
HoldsExempt(m) == roles[m] \cap ExemptRoleNames # {}

\* an exec run has completed
ExecRunDone == pc = "finished" /\ option_exec

\* after an exec run, m holds Member iff m was resolved from the roster, or
\* held Member before the run and holds an exempt role
MemberIff(m) ==
  "Member" \in roles[m]
    <=> (ResolvedFromRoster(m) \/ ("Member" \in roles0[m] /\ HoldsExempt(m)))

\* C15 as stated: after an exec run a member holds Member iff resolved, or
\* held it before and is exempt; in particular no unresolved, non-exempt
\* member still holds Member, Tourney or Practice.
C15_MemberIffAndNoneLeft ==
  ExecRunDone =>
    \A m \in Range(ServerMembers) :
       /\ MemberIff(m)
       /\ (~ResolvedFromRoster(m) /\ ~HoldsExempt(m))
             => roles[m] \cap {"Member", "Tourney", "Practice"} = {}

\* C15 as amended: after an exec run a member holds Member iff resolved, or
\* held it before and is exempt; in particular no unresolved, non-exempt
\* member still holds Member, and none of them who held Member before the
\* run still holds Tourney or Practice.
C15_MemberIffAndNoneLeftOfMembers ==
  ExecRunDone =>
    \A m \in Range(ServerMembers) :
       /\ MemberIff(m)
       /\ (~ResolvedFromRoster(m) /\ ~HoldsExempt(m))
             => /\ "Member" \notin roles[m]
                /\ "Member" \in roles0[m]
                      => roles[m] \cap {"Tourney", "Practice"} = {}

\* C15 witness: after an exec run m1, resolved and without Member before,
\* holds Member; m2, unresolved and not exempt, held Member, Tourney and
\* Practice before and holds none of them
C15_Witness ==
  /\ ExecRunDone
  /\ ResolvedFromRoster("m1")
  /\ "Member" \notin roles0["m1"]
  /\ "Member" \in roles["m1"]
  /\ ~ResolvedFromRoster("m2")
  /\ ~HoldsExempt("m2")
  /\ roles0["m2"] = {"Member", "Tourney", "Practice"}
  /\ roles["m2"] \cap {"Member", "Tourney", "Practice"} = {}

====
